---- MODULE Spec2Model ----
(***************************************************************************)
(* Model of pd's server/util.go: the RPC client (rpcConnect, rpcCall,      *)
(* RPCRequest), the etcd accessors (kvGet, getValue, getProtoMsg), the     *)
(* transaction wrapper slowLogTxn, the readiness prober waitEtcdStart, the *)
(* log bridge redirectFormatter and the uint64 codec.                      *)
(* Each component has its own specification: the components share no       *)
(* state, so each is explored with the others at rest.                     *)
(***************************************************************************)
EXTENDS Integers, Sequences, FiniteSets, TLC

\* ------------------------------------------------------------------ bounds
MaxCalls == 2        \* concurrent RPCRequest calls
MaxUrls == 2         \* urls in one address specification
MaxTxns == 2         \* transactions made one after the other
MaxOps == 1          \* compares / operations handed to one If / Then / Else
MaxKvs == 2          \* entries in one etcd get response
MaxValLen == 2       \* bytes in one stored value
MaxLogs == 2         \* entries handed to the log bridge
MaxBytesLen == 9     \* bytes in one slice handed to bytesToUint64

\* ------------------------------------------------------------------ state
VARIABLES
    rpc,          \* per RPCRequest call: position and locals
    conns,        \* per call, every net.Conn its Dials have returned, in order
    store,        \* etcd: the value under the key the transactions use
    txn,          \* the transaction object under construction
    txnCounter,   \* txnCounter: label -> count
    txnDuration,  \* txnDuration: label -> observed costs, in order
    txnLog,       \* what each Commit was given and returned, in order
    kv,           \* the last call of getValue / getProtoMsg: input and return
    wait,         \* waitEtcdStart: position, locals and what it has done
    logb,         \* the log bridge: entries formatted, sink calls, process alive
    codec         \* the last call of uint64ToBytes / bytesToUint64

rpcVars == <<rpc, conns>>
txnVars == <<store, txn, txnCounter, txnDuration, txnLog>>
kvVars == <<kv>>
waitVars == <<wait>>
logVars == <<logb>>
codecVars == <<codec>>
vars == <<rpc, conns, store, txn, txnCounter, txnDuration, txnLog, kv, wait,
          logb, codec>>

Nil == "nil"
NoConn == 0

Calls == 1..MaxCalls

\* The reqID argument of the c-th call of RPCRequest, and the ids a response
\* frame read by that call may carry: the same id or another one.
ReqIDOf(c) == c
RespIDs(c) == {ReqIDOf(c), ReqIDOf(c) + 1}

\* ------------------------------------------------------------- RPC client

\* The address specifications handed to RPCRequest: n urls, the i-th with
\* host i; the schemes cover both branches of the switch in rpcConnect.
UrlScheme(i) == CASE i % 4 = 1 -> "tcp"
                  [] i % 4 = 2 -> "unix"
                  [] i % 4 = 3 -> "unixs"
                  [] OTHER     -> "tcps"

AddrSpec(n) == [i \in 1..n |-> [Scheme |-> UrlScheme(i), Host |-> i]]

\* ParseUrls(addr): an error for a malformed specification, else the urls in
\* input order.  The specifications tried are the one with a single url and
\* the longest one.
ParseUrls == [ok : {FALSE}, urls : {<<>>}]
                \cup {[ok |-> TRUE, urls |-> AddrSpec(n)] : n \in {1, MaxUrls}}

\* switch url.Scheme: the network the url is dialled on.
DialNetwork(url) == IF url.Scheme \in {"unix", "unixs"} THEN "unix" ELSE "tcp"

\* A loop that dials the same url again after a failure.
NextCandidate_retry(idx) == idx

\* The loop of rpcConnect moves to the next url of the range.
NextCandidate(idx) == idx + 1

\* A Close that is forgotten.
CloseConn_leak(cs, c, id) == cs

\* conn.Close()
CloseConn(cs, c, id) == [cs EXCEPT ![c][id].open = FALSE]

\* What the peer may answer: a frame with an id and an inner message that
\* either carries a pdpb.Response or does not.
Messages == {[MsgType |-> "PdResp", PdResp |-> "resp"],
             [MsgType |-> "PdResp", PdResp |-> Nil],
             [MsgType |-> "Other",  PdResp |-> Nil]}

\* msgpb.Message.GetPdResp: the PdResp field, nil when unset.
GetPdResp(m) == m.PdResp

\* A tail of rpcCall that does not compare the ids.
rpcCallResult_nocheck(reqID, respID, m) == [resp |-> GetPdResp(m), err |-> Nil]

\* The tail of rpcCall after ReadMessage returned without error.
rpcCallResult(reqID, respID, m) ==
    IF respID # reqID
    THEN [resp |-> Nil, err |-> "mismatch"]
    ELSE [resp |-> GetPdResp(m), err |-> Nil]

\* conn is the connection the call holds: the tab-th table of conns, at
\* index conn.
InitCall == [pc |-> "idle", urls |-> <<>>, reqID |-> 0, idx |-> 0,
             tab |-> 0, conn |-> NoConn, resp |-> Nil, err |-> Nil,
             dialLog |-> <<>>]

InitRPC ==
    /\ rpc = [c \in Calls |-> InitCall]
    /\ conns = [c \in Calls |-> <<>>]

\* RPCRequest(addr, reqID, request) is entered; rpcConnect builds the
\* preflight request and parses addr.
RPCRequest(c) ==
    /\ rpc[c].pc = "idle"
    /\ \E p \in ParseUrls :
         IF p.ok
         THEN rpc' = [rpc EXCEPT ![c].pc = "dial", ![c].urls = p.urls,
                                 ![c].reqID = ReqIDOf(c), ![c].idx = 1]
         ELSE rpc' = [rpc EXCEPT ![c].pc = "done", ![c].reqID = ReqIDOf(c),
                                 ![c].err = "parse"]
    /\ UNCHANGED conns
    /\ UNCHANGED <<txnVars, kvVars, waitVars, logVars, codecVars>>

\* A Dial that hands out a connection another call holds to the same host
\* when there is one, as a pool of connections would.
Dial_pooled(c) ==
    /\ rpc[c].pc = "dial"
    /\ rpc[c].idx <= Len(rpc[c].urls)
    /\ LET url == rpc[c].urls[rpc[c].idx]
           held == {d \in Calls \ {c} :
                      /\ rpc[d].conn # NoConn
                      /\ conns[rpc[d].tab][rpc[d].conn].open
                      /\ conns[rpc[d].tab][rpc[d].conn].host = url.Host}
       IN
       \E ok \in BOOLEAN :
         IF ok /\ held # {}
         THEN /\ \E d \in held :
                   rpc' = [rpc EXCEPT ![c].pc = "preflight",
                                      ![c].tab = rpc[d].tab,
                                      ![c].conn = rpc[d].conn,
                                      ![c].dialLog = Append(@, [idx |-> rpc[c].idx, ok |-> TRUE])]
              /\ UNCHANGED conns
         ELSE IF ok
         THEN /\ conns' = [conns EXCEPT ![c] =
                                Append(@, [ep |-> rpc[c].idx,
                                           network |-> DialNetwork(url),
                                           host |-> url.Host,
                                           open |-> TRUE, wr |-> <<>>, rd |-> <<>>])]
              /\ rpc' = [rpc EXCEPT ![c].pc = "preflight",
                                    ![c].tab = c,
                                    ![c].conn = Len(conns[c]) + 1,
                                    ![c].dialLog = Append(@, [idx |-> rpc[c].idx, ok |-> TRUE])]
         ELSE /\ rpc' = [rpc EXCEPT ![c].idx = NextCandidate(@),
                                    ![c].dialLog = Append(@, [idx |-> rpc[c].idx, ok |-> FALSE])]
              /\ UNCHANGED conns
    /\ UNCHANGED <<txnVars, kvVars, waitVars, logVars, codecVars>>

\* One iteration of the loop of rpcConnect up to net.Dial, which returns a
\* new connection into the local conn of the call.
Dial(c) ==
    /\ rpc[c].pc = "dial"
    /\ rpc[c].idx <= Len(rpc[c].urls)
    /\ LET url == rpc[c].urls[rpc[c].idx] IN
       \E ok \in BOOLEAN :
         IF ok
         THEN /\ conns' = [conns EXCEPT ![c] =
                                Append(@, [ep |-> rpc[c].idx,
                                           network |-> DialNetwork(url),
                                           host |-> url.Host,
                                           open |-> TRUE, wr |-> <<>>, rd |-> <<>>])]
              /\ rpc' = [rpc EXCEPT ![c].pc = "preflight",
                                    ![c].tab = c,
                                    ![c].conn = Len(conns[c]) + 1,
                                    ![c].dialLog = Append(@, [idx |-> rpc[c].idx, ok |-> TRUE])]
         ELSE /\ rpc' = [rpc EXCEPT ![c].idx = NextCandidate(@),
                                    ![c].dialLog = Append(@, [idx |-> rpc[c].idx, ok |-> FALSE])]
              /\ UNCHANGED conns
    /\ UNCHANGED <<txnVars, kvVars, waitVars, logVars, codecVars>>

\* req.Write(conn): the preflight request. On an error the connection is
\* closed and the loop goes on; wr records the writes that completed.
Preflight(c) ==
    /\ rpc[c].pc = "preflight"
    /\ LET t == rpc[c].tab  id == rpc[c].conn IN
       \E ok \in BOOLEAN :
         IF ok
         THEN /\ conns' = [conns EXCEPT ![t][id].wr =
                              Append(@, [by |-> c, what |-> "preflight"])]
              /\ rpc' = [rpc EXCEPT ![c].pc = "write"]
         ELSE /\ conns' = CloseConn(conns, t, id)
              /\ rpc' = [rpc EXCEPT ![c].pc = "dial", ![c].tab = 0,
                                    ![c].conn = NoConn,
                                    ![c].idx = NextCandidate(@)]
    /\ UNCHANGED <<txnVars, kvVars, waitVars, logVars, codecVars>>

\* An rpcConnect that returns the last connection it opened along with
\* the error.
ConnectFailed_stale(c) ==
    /\ rpc[c].pc = "dial"
    /\ rpc[c].idx > Len(rpc[c].urls)
    /\ rpc' = [rpc EXCEPT ![c].pc = "done", ![c].err = "connect",
                          ![c].tab = IF Len(conns[c]) > 0 THEN c ELSE 0,
                          ![c].conn = Len(conns[c])]
    /\ UNCHANGED conns
    /\ UNCHANGED <<txnVars, kvVars, waitVars, logVars, codecVars>>

\* The range of rpcConnect is exhausted: "connect to %s failed"; RPCRequest
\* returns the error.
ConnectFailed(c) ==
    /\ rpc[c].pc = "dial"
    /\ rpc[c].idx > Len(rpc[c].urls)
    /\ rpc' = [rpc EXCEPT ![c].pc = "done", ![c].err = "connect"]
    /\ UNCHANGED conns
    /\ UNCHANGED <<txnVars, kvVars, waitVars, logVars, codecVars>>

\* util.WriteMessage(conn, reqID, req) in rpcCall: on an error rpcCall
\* returns it, and RPCRequest returns what rpcCall returns.
WriteMessage(c) ==
    /\ rpc[c].pc = "write"
    /\ LET t == rpc[c].tab  id == rpc[c].conn IN
       \E ok \in BOOLEAN :
         IF ok
         THEN /\ conns' = [conns EXCEPT ![t][id].wr =
                              Append(@, [by |-> c, what |-> "frame"])]
              /\ rpc' = [rpc EXCEPT ![c].pc = "read"]
         ELSE /\ rpc' = [rpc EXCEPT ![c].pc = "done", ![c].err = "write"]
              /\ UNCHANGED conns
    /\ UNCHANGED <<txnVars, kvVars, waitVars, logVars, codecVars>>

\* A read whose failure sends the call back to the next candidate.
ReadMessage_fallback(c) ==
    /\ rpc[c].pc = "read"
    /\ LET t == rpc[c].tab  id == rpc[c].conn IN
       \/ /\ rpc' = [rpc EXCEPT ![c].pc = "dial", ![c].tab = 0,
                                ![c].conn = NoConn,
                                ![c].idx = NextCandidate(@)]
          /\ conns' = CloseConn(conns, t, id)
       \/ \E respID \in RespIDs(c), m \in Messages :
            LET r == rpcCallResult(rpc[c].reqID, respID, m) IN
            /\ rpc' = [rpc EXCEPT ![c].pc = "done", ![c].resp = r.resp,
                                  ![c].err = r.err]
            /\ conns' = [conns EXCEPT ![t][id].rd =
                            Append(@, [by |-> c, id |-> respID,
                                       pd |-> GetPdResp(m)])]
    /\ UNCHANGED <<txnVars, kvVars, waitVars, logVars, codecVars>>

\* util.ReadMessage(conn, resp) and the rest of rpcCall; RPCRequest returns
\* what rpcCall returns.
ReadMessage(c) ==
    /\ rpc[c].pc = "read"
    /\ LET t == rpc[c].tab  id == rpc[c].conn IN
       \/ /\ rpc' = [rpc EXCEPT ![c].pc = "done", ![c].err = "read"]
          /\ UNCHANGED conns
       \/ \E respID \in RespIDs(c), m \in Messages :
            LET r == rpcCallResult(rpc[c].reqID, respID, m) IN
            /\ rpc' = [rpc EXCEPT ![c].pc = "done", ![c].resp = r.resp,
                                  ![c].err = r.err]
            /\ conns' = [conns EXCEPT ![t][id].rd =
                            Append(@, [by |-> c, id |-> respID,
                                       pd |-> GetPdResp(m)])]
    /\ UNCHANGED <<txnVars, kvVars, waitVars, logVars, codecVars>>

NextRPC ==
    \E c \in Calls :
        \/ RPCRequest(c)
        \/ Dial(c)
        \/ Preflight(c)
        \/ ConnectFailed(c)
        \/ WriteMessage(c)
        \/ ReadMessage(c)

\* --------------------------------------------------- RPC client: properties

\* rpcConnect has returned a connection to call c.
HasConn(c) == rpc[c].conn # NoConn /\ rpc[c].pc \in {"write", "read", "done"}

TheConn(c) == conns[rpc[c].tab][rpc[c].conn]

\* Every dial before the last one of call c failed in net.Dial itself.
EarlierDialsFailed(c) ==
    \A j \in 1..(Len(rpc[c].dialLog) - 1) : ~rpc[c].dialLog[j].ok

\* C1: when RPCRequest has returned and rpcConnect had obtained a
\* connection, that connection is closed, whatever the exit path.
C1_ConnClosedOnReturn ==
    \A c \in Calls :
        (rpc[c].pc = "done" /\ rpc[c].conn # NoConn) => ~TheConn(c).open

\* C2: when the first K urls cannot be dialled and the (K+1)-th is dialled
\* and takes the preflight request, rpcConnect returns the connection to the
\* (K+1)-th url; the urls were dialled in input order, nothing was written
\* to (no connection exists for) the first K, and nothing after the
\* (K+1)-th is dialled, up to and after the return of the call.
C2_FallbackInOrder ==
    \A c \in Calls :
        (HasConn(c) /\ EarlierDialsFailed(c)) =>
            LET k1 == Len(rpc[c].dialLog) IN
            /\ \A i \in 1..k1 : rpc[c].dialLog[i].idx = i
            /\ rpc[c].dialLog[k1].ok
            /\ Len(conns[c]) = 1
            /\ rpc[c].conn = 1
            /\ TheConn(c).ep = k1
            /\ TheConn(c).host = rpc[c].urls[k1].Host
            /\ TheConn(c).wr[1].what = "preflight"

C2_Witness ==
    \E c \in Calls :
        /\ rpc[c].pc = "done" /\ rpc[c].err = Nil
        /\ Len(rpc[c].urls) = 2
        /\ Len(rpc[c].dialLog) = 2
        /\ ~rpc[c].dialLog[1].ok
        /\ TheConn(c).ep = 2

\* A response frame was read by call c and its id is not the reqID sent.
ReadMismatch(c) ==
    /\ rpc[c].pc = "done"
    /\ rpc[c].conn # NoConn
    /\ TheConn(c).rd # <<>>
    /\ TheConn(c).rd[Len(TheConn(c).rd)].id # rpc[c].reqID

\* C3: a response frame whose id differs from the reqID sent makes rpcCall,
\* and so RPCRequest, return a non-nil error and a nil response, also when
\* the frame carries a well-formed pdpb.Response.
C3_MismatchIsError ==
    \A c \in Calls :
        ReadMismatch(c) => (rpc[c].err # Nil /\ rpc[c].resp = Nil)

C3_Witness ==
    \E c \in Calls :
        /\ ReadMismatch(c)
        /\ TheConn(c).rd[1].pd # Nil
        /\ rpc[c].err = "mismatch"

\* C4 as stated, in what it says of the call going on: after a failure to
\* connect, of the preflight request or of the send of the request frame
\* the call goes on with the next candidate, so a call ends on such a
\* failure only when every candidate was tried.
C4_SendFailureFallsBack ==
    \A c \in Calls :
        (rpc[c].pc = "done" /\ rpc[c].err \in {"connect", "write"}) =>
            Len(rpc[c].dialLog) = Len(rpc[c].urls)

\* C4 amended: a failure of net.Dial or of the preflight request closes the
\* opened connection and the loop goes on with the next candidate; no
\* candidate is attempted twice; rpcConnect gives up only after the last
\* candidate; a failed send of the request frame ends the call with no
\* further candidate dialled.
C4_ConnectFailureFallsBack ==
    \A c \in Calls :
        /\ \A i \in 1..Len(rpc[c].dialLog) : rpc[c].dialLog[i].idx = i
        /\ \A i \in 1..Len(conns[c]) :
              i # rpc[c].conn => (~conns[c][i].open /\ conns[c][i].wr = <<>>)
        /\ rpc[c].pc = "dial" => rpc[c].idx = Len(rpc[c].dialLog) + 1
        /\ (rpc[c].pc = "done" /\ rpc[c].err = "connect") =>
              (rpc[c].conn = NoConn /\ Len(rpc[c].dialLog) = Len(rpc[c].urls))
        /\ (rpc[c].pc = "done" /\ rpc[c].err = "write") =>
              (rpc[c].conn = Len(conns[c]) /\ TheConn(c).ep = Len(rpc[c].dialLog))

C4_Witness ==
    \E c \in Calls :
        /\ rpc[c].pc = "done" /\ rpc[c].err = "write"
        /\ Len(conns[c]) = 2
        /\ ~conns[c][1].open
        /\ rpc[c].conn = 2

\* C12: once the request frame is written, the call writes it to no second
\* connection and dials no further candidate: the one frame of a call is on
\* the connection it holds, the last one dialled, while it waits for the
\* response and after it; a failed read or an id mismatch ends the call with
\* an error and no response.
C12_NoFallbackAfterSend ==
    /\ \A t \in Calls : \A i \in 1..Len(conns[t]) :
          \A k \in 1..Len(conns[t][i].wr) :
             conns[t][i].wr[k].what = "frame" =>
                 LET c == conns[t][i].wr[k].by IN
                 /\ rpc[c].pc \in {"read", "done"}
                 /\ t = rpc[c].tab /\ i = rpc[c].conn /\ k = 2
                 /\ i = Len(conns[c])
                 /\ conns[t][i].ep = Len(rpc[c].dialLog)
    /\ \A c \in Calls :
          (rpc[c].pc = "done" /\ rpc[c].err \in {"read", "mismatch"}) =>
              /\ rpc[c].resp = Nil
              /\ Len(TheConn(c).wr) = 2
              /\ TheConn(c).wr[2] = [by |-> c, what |-> "frame"]

C12_Witness ==
    \E c \in Calls :
        /\ rpc[c].pc = "done" /\ rpc[c].err = "read"
        /\ Len(rpc[c].urls) = 2
        /\ Len(rpc[c].dialLog) = 1
        /\ TheConn(c).wr[2].what = "frame"

\* C13: when every candidate fails in net.Dial or in the preflight write,
\* rpcConnect returns no connection and an error, so that RPCRequest
\* returns no response, no request frame was written, and every connection
\* the call opened is closed.
C13_AllCandidatesFail ==
    \A c \in Calls :
        (rpc[c].pc = "done" /\ rpc[c].err = "connect") =>
            /\ rpc[c].conn = NoConn
            /\ rpc[c].resp = Nil
            /\ Len(rpc[c].dialLog) = Len(rpc[c].urls)
            /\ \A i \in 1..Len(conns[c]) :
                  (~conns[c][i].open /\ conns[c][i].wr = <<>> /\ conns[c][i].rd = <<>>)

C13_Witness ==
    \E c \in Calls :
        /\ rpc[c].pc = "done" /\ rpc[c].err = "connect"
        /\ Len(rpc[c].urls) = 2
        /\ ~rpc[c].dialLog[1].ok
        /\ rpc[c].dialLog[2].ok
        /\ Len(conns[c]) = 1
        /\ ~conns[c][1].open

\* C14: every RPCRequest call that has started eventually returns, also when
\* the peer accepts the connection, takes the request and never answers.
C14_EveryCallReturns ==
    \A c \in Calls : (rpc[c].pc # "idle") ~> (rpc[c].pc = "done")

\* C16: under every interleaving of the calls, the connection a call holds
\* is one its own Dial returned, and every write to and read from a
\* connection is by the call that dialled it.
C16_ConnsNotShared ==
    /\ \A c \in Calls : rpc[c].conn # NoConn => rpc[c].tab = c
    /\ \A c, d \in Calls :
          (c # d /\ rpc[c].conn # NoConn /\ rpc[d].conn # NoConn) =>
              <<rpc[c].tab, rpc[c].conn>> # <<rpc[d].tab, rpc[d].conn>>
    /\ \A t \in Calls : \A i \in 1..Len(conns[t]) :
          /\ \A k \in 1..Len(conns[t][i].wr) : conns[t][i].wr[k].by = t
          /\ \A k \in 1..Len(conns[t][i].rd) : conns[t][i].rd[k].by = t
          /\ Len(conns[t][i].rd) <= 1

C16_Witness ==
    \E c, d \in Calls :
        /\ c # d
        /\ rpc[c].pc = "read" /\ rpc[d].pc = "read"
        /\ TheConn(c).host = TheConn(d).host
        /\ TheConn(c).open /\ TheConn(d).open

\* C18: when rpcCall, and so RPCRequest, returns a nil error, the response
\* it returns is not nil, also for a frame with the matching id whose
\* message is not a pd response or has no response set.
C18_NilErrorHasResponse ==
    \A c \in Calls :
        (rpc[c].pc = "done" /\ rpc[c].err = Nil) => rpc[c].resp # Nil

\* ------------------------------------------------- transaction wrapper

slowRequestTime == 1
requestTimeout == 10

\* The values under the key: two, so that a compare can hold and fail.
Vals == {0, 1}
Labels == {"success", "failed"}

\* The elapsed times a request may take, in seconds: at the slow threshold,
\* above it, and the whole timeout.
Costs == {slowRequestTime, slowRequestTime + 1, requestTimeout}

\* Sequences over S of length at most n.
SeqsUpTo(S, n) == UNION {[1..k -> S] : k \in 0..n}

\* clientv3.Cmp: the value under the key equals val.  clientv3.Op: put val.
CmpLists == SeqsUpTo(Vals, MaxOps)
OpLists == SeqsUpTo(Vals, MaxOps)

\* An error of the etcd accessors is the stack of its annotations with the
\* cause last; the nil error is the empty stack.
NoErr == <<>>
Err(cause) == <<cause>>

\* errors.Trace: nil stays nil, an error is wrapped and keeps its cause.
Trace(e) == IF e = NoErr THEN NoErr ELSE <<"trace">> \o e

\* errors.Cause
Cause(e) == IF e = NoErr THEN NoErr ELSE <<e[Len(e)]>>

\* A nil *clientv3.TxnResponse.
NilTxnResp == [nil |-> TRUE, Succeeded |-> FALSE]

\* etcd evaluates the compares of a transaction against the store.
CmpsHold(cs, v) == \A i \in 1..Len(cs) : cs[i] = v

\* etcd applies a list of puts in order.
RECURSIVE ApplyOps(_, _)
ApplyOps(ops, v) == IF ops = <<>> THEN v ELSE ApplyOps(Tail(ops), Head(ops))

\* t.Txn.Commit(): what the underlying transaction does to the store and
\* returns.  Without an error the response tells whether the compares held
\* and the matching branch was applied once; with an error the request was
\* either not applied or applied with the response lost.
UnderlyingCommit(t, v) ==
    LET ok == CmpsHold(t.cmps, v)
        branch == IF ok THEN "then" ELSE "else"
        after == ApplyOps(IF ok THEN t.thenOps ELSE t.elseOps, v)
    IN  {[resp |-> [nil |-> FALSE, Succeeded |-> ok], err |-> NoErr,
          store |-> after, applied |-> branch]}
        \cup {[resp |-> NilTxnResp, err |-> Err(e), store |-> v,
                applied |-> "none"] : e \in {"unavailable", "deadline"}}
        \cup {[resp |-> NilTxnResp, err |-> Err("deadline"), store |-> after,
               applied |-> branch]}

\* A label taken from the outcome of the compares.
CommitLabel_byCompare(resp, err) ==
    IF err # NoErr \/ ~resp.Succeeded THEN "failed" ELSE "success"

\* The label of Commit: "success", or "failed" when err != nil.
CommitLabel(resp, err) == IF err # NoErr THEN "failed" ELSE "success"

\* A cancel that is only called when the commit went through.
Cancel_onSuccess(t, err) ==
    IF err = NoErr THEN [t EXCEPT !.cancels = @ + 1, !.ctx = "cancelled"] ELSE t

\* t.cancel() in Commit, right after the underlying commit returned.
Cancel(t, err) == [t EXCEPT !.cancels = @ + 1, !.ctx = "cancelled"]

\* An Observe that is skipped for a failed commit.
Observe_skipFailed(h, label, cost) ==
    IF label = "failed" THEN h ELSE [h EXCEPT ![label] = Append(@, cost)]

\* txnDuration.WithLabelValues(label).Observe(cost.Seconds())
Observe(h, label, cost) == [h EXCEPT ![label] = Append(@, cost)]

\* txnCounter.WithLabelValues(label).Inc()
Inc(cnt, label) == [cnt EXCEPT ![label] = @ + 1]

\* What a step did to the metrics: the labels whose counter went up by one,
\* and the labels whose histogram got one more observation.
Counted(cnt, cnt2) == {l \in Labels : cnt2[l] = cnt[l] + 1}
Observed(h, h2) == {l \in Labels : Len(h2[l]) = Len(h[l]) + 1}

NoTxn == [phase |-> "none", wrapped |-> FALSE, cmps |-> <<>>,
          thenOps |-> <<>>, elseOps |-> <<>>, ctx |-> "none", cancels |-> 0]

InitTxn ==
    /\ store = 0
    /\ txn = NoTxn
    /\ txnCounter = [l \in Labels |-> 0]
    /\ txnDuration = [l \in Labels |-> <<>>]
    /\ txnLog = <<>>

\* newSlowLogTxn(client): a context with the timeout, and a wrapper around
\* client.Txn(ctx) that holds the cancel function.
newSlowLogTxn ==
    /\ txn.phase \in {"none", "committed"}
    /\ Len(txnLog) < MaxTxns
    /\ txn' = [NoTxn EXCEPT !.phase = "new", !.wrapped = TRUE, !.ctx = "live"]
    /\ UNCHANGED <<store, txnCounter, txnDuration, txnLog>>
    /\ UNCHANGED <<rpcVars, kvVars, waitVars, logVars, codecVars>>

\* slowLogTxn.If(cs...): a new wrapper around t.Txn.If(cs...) with the same
\* cancel.  (clientv3 allows If once, before Then and Else.)
If ==
    /\ txn.phase = "new"
    /\ txn.wrapped
    /\ \E cs \in CmpLists : txn' = [txn EXCEPT !.phase = "if", !.cmps = cs]
    /\ UNCHANGED <<store, txnCounter, txnDuration, txnLog>>
    /\ UNCHANGED <<rpcVars, kvVars, waitVars, logVars, codecVars>>

\* slowLogTxn.Then(ops...): a new wrapper around t.Txn.Then(ops...) with
\* the same cancel.  (clientv3 allows Then once, before Else.)
Then ==
    /\ txn.phase \in {"new", "if"}
    /\ txn.wrapped
    /\ \E ops \in OpLists : txn' = [txn EXCEPT !.phase = "then", !.thenOps = ops]
    /\ UNCHANGED <<store, txnCounter, txnDuration, txnLog>>
    /\ UNCHANGED <<rpcVars, kvVars, waitVars, logVars, codecVars>>

\* Else is not defined on slowLogTxn: the call goes to the embedded
\* clientv3.Txn and returns the underlying transaction, not a wrapper.
Else ==
    /\ txn.phase \in {"new", "if", "then"}
    /\ txn.wrapped
    /\ \E ops \in OpLists :
         txn' = [txn EXCEPT !.phase = "else", !.elseOps = ops, !.wrapped = FALSE]
    /\ UNCHANGED <<store, txnCounter, txnDuration, txnLog>>
    /\ UNCHANGED <<rpcVars, kvVars, waitVars, logVars, codecVars>>

\* slowLogTxn.Commit(): the underlying commit, cancel, the slow log, the
\* counter and the histogram, and the return of resp and errors.Trace(err).
Commit ==
    /\ txn.phase \in {"new", "if", "then"}
    /\ txn.wrapped
    /\ \E r \in UnderlyingCommit(txn, store), cost \in Costs :
         LET label == CommitLabel(r.resp, r.err)
             t == Cancel(txn, r.err) IN
         /\ cost = requestTimeout <=> r.err = Err("deadline")
         /\ store' = r.store
         /\ txn' = [t EXCEPT !.phase = "committed"]
         /\ txnCounter' = Inc(txnCounter, label)
         /\ txnDuration' = Observe(txnDuration, label, cost)
         /\ txnLog' = Append(txnLog,
                [wrapped |-> TRUE, held |-> CmpsHold(txn.cmps, store),
                 applied |-> r.applied, uresp |-> r.resp, uerr |-> r.err,
                 resp |-> r.resp, err |-> Trace(r.err),
                 cost |-> cost, warned |-> cost > slowRequestTime,
                 cancels |-> t.cancels,
                 counted |-> Counted(txnCounter, txnCounter'),
                 observed |-> Observed(txnDuration, txnDuration')])
    /\ UNCHANGED <<rpcVars, kvVars, waitVars, logVars, codecVars>>

\* Commit of the underlying clientv3.Txn that Else returned: no wrapper code
\* runs.
CommitUnderlying ==
    /\ txn.phase = "else"
    /\ ~txn.wrapped
    /\ \E r \in UnderlyingCommit(txn, store), cost \in Costs :
         /\ cost = requestTimeout <=> r.err = Err("deadline")
         /\ store' = r.store
         /\ txn' = [txn EXCEPT !.phase = "committed"]
         /\ txnLog' = Append(txnLog,
                [wrapped |-> FALSE, held |-> CmpsHold(txn.cmps, store),
                 applied |-> r.applied, uresp |-> r.resp, uerr |-> r.err,
                 resp |-> r.resp, err |-> r.err,
                 cost |-> cost, warned |-> FALSE, cancels |-> txn.cancels,
                 counted |-> {}, observed |-> {}])
    /\ UNCHANGED <<txnCounter, txnDuration>>
    /\ UNCHANGED <<rpcVars, kvVars, waitVars, logVars, codecVars>>

\* Another client of etcd puts a value under the key.
StorePut ==
    /\ \E v \in Vals \ {store} : store' = v
    /\ UNCHANGED <<txn, txnCounter, txnDuration, txnLog>>
    /\ UNCHANGED <<rpcVars, kvVars, waitVars, logVars, codecVars>>

NextTxn ==
    \/ StorePut
    \/ newSlowLogTxn
    \/ If
    \/ Then
    \/ Else
    \/ Commit
    \/ CommitUnderlying

\* --------------------------------------------- transaction wrapper: properties

\* The commits that went through slowLogTxn.Commit.
WrapperCommits == {i \in 1..Len(txnLog) : txnLog[i].wrapped}

\* C5 as stated, for the commits etcd answered: a commit whose compares do
\* not hold applies nothing of Then and is recorded under "failed" in the
\* counter and in the histogram; one whose compares hold applies Then once
\* and is recorded under "success".
C5_FalseCompareIsFailed ==
    \A i \in WrapperCommits :
        txnLog[i].uerr = NoErr =>
            IF txnLog[i].held
            THEN /\ txnLog[i].applied = "then"
                 /\ txnLog[i].counted = {"success"}
                 /\ txnLog[i].observed = {"success"}
            ELSE /\ txnLog[i].applied # "then"
                 /\ txnLog[i].counted = {"failed"}
                 /\ txnLog[i].observed = {"failed"}

\* C5 amended: a commit whose compares do not hold never applies Then; a
\* commit that returns no error is recorded under "success" in the counter
\* and in the histogram whether its compares held or not, and applies Then
\* exactly once when they held; "failed" records a commit that returned an
\* error.
C5_LabelIsByError ==
    \A i \in WrapperCommits :
        /\ ~txnLog[i].held => txnLog[i].applied # "then"
        /\ txnLog[i].uerr = NoErr =>
              /\ txnLog[i].counted = {"success"}
              /\ txnLog[i].observed = {"success"}
              /\ txnLog[i].applied = IF txnLog[i].held THEN "then" ELSE "else"
              /\ txnLog[i].resp.Succeeded = txnLog[i].held
        /\ ("failed" \in txnLog[i].counted \cup txnLog[i].observed) =>
              txnLog[i].uerr # NoErr

C5_Witness ==
    \E i, j \in WrapperCommits :
        /\ txnLog[i].uerr = NoErr /\ ~txnLog[i].held
        /\ txnLog[i].counted = {"success"}
        /\ txnLog[j].uerr = NoErr /\ txnLog[j].held
        /\ txnLog[j].applied = "then"

CommitsLabelled(l) ==
    {i \in WrapperCommits : (l = "failed") <=> (txnLog[i].uerr # NoErr)}

\* C7: every slowLogTxn.Commit adds one to the counter and one observation
\* to the histogram under one and the same label, "failed" exactly when the
\* underlying commit returned an error, and returns the response and the
\* error of the underlying commit.
C7_OneCountOneObservation ==
    /\ \A i \in WrapperCommits :
          /\ Cardinality(txnLog[i].counted) = 1
          /\ txnLog[i].observed = txnLog[i].counted
          /\ txnLog[i].counted =
                IF txnLog[i].uerr # NoErr THEN {"failed"} ELSE {"success"}
          /\ txnLog[i].resp = txnLog[i].uresp
          /\ (txnLog[i].err = NoErr) <=> (txnLog[i].uerr = NoErr)
          /\ Cause(txnLog[i].err) = Cause(txnLog[i].uerr)
    /\ \A l \in Labels :
          /\ txnCounter[l] = Cardinality(CommitsLabelled(l))
          /\ Len(txnDuration[l]) = Cardinality(CommitsLabelled(l))

C7_Witness ==
    /\ txnCounter["failed"] = 1
    /\ txnCounter["success"] = 1
    /\ Len(txnDuration["failed"]) = 1
    /\ Len(txnDuration["success"]) = 1

\* C17: every transaction reached from newSlowLogTxn by If, Then and Else is
\* still a slowLogTxn with the cancel of the original, so that its Commit
\* releases the context and records the counter and the histogram.
C17_BuildersKeepWrapper ==
    /\ txn.phase \in {"new", "if", "then", "else"} =>
          (txn.wrapped /\ txn.ctx = "live")
    /\ \A i \in 1..Len(txnLog) :
          /\ txnLog[i].wrapped
          /\ txnLog[i].cancels = 1
          /\ Cardinality(txnLog[i].counted) = 1
          /\ txnLog[i].observed = txnLog[i].counted

\* ------------------------------------------------------- etcd accessors

\* A []byte: nil, or a sequence of bytes (an empty one is not nil).
Bytes == {0, 1}
NilBytes == [nil |-> TRUE, bytes |-> <<>>]
ByteSlices == {NilBytes} \cup
    {[nil |-> FALSE, bytes |-> b] : b \in SeqsUpTo(Bytes, MaxValLen)}

\* What kv.Get may return to kvGet: an error and no response, or a response
\* with the matching entries.
GetAnswers ==
    {[err |-> Err(e), Kvs |-> <<>>] : e \in {"unavailable", "deadline"}}
    \cup {[err |-> NoErr, Kvs |-> k] : k \in SeqsUpTo(ByteSlices, MaxKvs)}

\* proto.Unmarshal on the wire form used here: a message is a sequence of
\* fields, each a tag byte followed by a value byte; the tag 0 is illegal
\* and a field cut short is an error.  The empty input is the empty message.
RECURSIVE Unmarshal(_)
Unmarshal(b) ==
    IF b = <<>> THEN [err |-> NoErr, msg |-> <<>>]
    ELSE IF Len(b) = 1 THEN [err |-> Err("unexpected EOF"), msg |-> <<>>]
    ELSE IF b[1] = 0 THEN [err |-> Err("illegal tag"), msg |-> <<>>]
    ELSE LET rest == Unmarshal(SubSeq(b, 3, Len(b))) IN
         IF rest.err # NoErr THEN rest
         ELSE [err |-> NoErr,
               msg |-> <<[tag |-> b[1], val |-> b[2]]>> \o rest.msg]

\* kvGet: the response and errors.Trace(err) of kv.Get.
kvGet(a) == [Kvs |-> a.Kvs, err |-> Trace(a.err)]

\* A getValue that returns the first entry however many there are.
getValue_first(a) ==
    LET r == kvGet(a) IN
    IF r.err # NoErr THEN [value |-> NilBytes, err |-> Trace(r.err)]
    ELSE IF Len(r.Kvs) = 0 THEN [value |-> NilBytes, err |-> NoErr]
    ELSE [value |-> r.Kvs[1], err |-> NoErr]

\* getValue
getValue(a) ==
    LET r == kvGet(a) IN
    IF r.err # NoErr THEN [value |-> NilBytes, err |-> Trace(r.err)]
    ELSE LET n == Len(r.Kvs) IN
         IF n = 0 THEN [value |-> NilBytes, err |-> NoErr]
         ELSE IF n > 1 THEN [value |-> NilBytes, err |-> Err("must only one")]
         ELSE [value |-> r.Kvs[1], err |-> NoErr]

\* A getProtoMsg that takes bytes it cannot decode for a missing key.
getProtoMsg_swallow(a) ==
    LET v == getValue(a) IN
    IF v.err # NoErr THEN [found |-> FALSE, err |-> Trace(v.err), msg |-> <<>>]
    ELSE IF v.value.nil THEN [found |-> FALSE, err |-> NoErr, msg |-> <<>>]
    ELSE LET u == Unmarshal(v.value.bytes) IN
         IF u.err # NoErr THEN [found |-> FALSE, err |-> NoErr, msg |-> <<>>]
         ELSE [found |-> TRUE, err |-> NoErr, msg |-> u.msg]

\* getProtoMsg
getProtoMsg(a) ==
    LET v == getValue(a) IN
    IF v.err # NoErr THEN [found |-> FALSE, err |-> Trace(v.err), msg |-> <<>>]
    ELSE IF v.value.nil THEN [found |-> FALSE, err |-> NoErr, msg |-> <<>>]
    ELSE LET u == Unmarshal(v.value.bytes) IN
         IF u.err # NoErr THEN [found |-> FALSE, err |-> Trace(u.err), msg |-> <<>>]
         ELSE [found |-> TRUE, err |-> NoErr, msg |-> u.msg]

NoValue == [value |-> NilBytes, err |-> NoErr]
NoMsg == [found |-> FALSE, err |-> NoErr, msg |-> <<>>]

InitKV ==
    kv = [call |-> "none", answer |-> [err |-> NoErr, Kvs |-> <<>>],
          warned |-> FALSE, value |-> NoValue, msg |-> NoMsg]

\* A call of getValue: kvGet with its slow log, then the count of entries.
GetValue ==
    /\ kv.call = "none"
    /\ \E a \in GetAnswers, cost \in Costs :
         /\ cost = requestTimeout <=> a.err = Err("deadline")
         /\ kv' = [call |-> "getValue", answer |-> a,
                   warned |-> cost > slowRequestTime,
                   value |-> getValue(a), msg |-> NoMsg]
    /\ UNCHANGED <<rpcVars, txnVars, waitVars, logVars, codecVars>>

\* A call of getProtoMsg: getValue, then proto.Unmarshal of the value.
GetProtoMsg ==
    /\ kv.call = "none"
    /\ \E a \in GetAnswers, cost \in Costs :
         /\ cost = requestTimeout <=> a.err = Err("deadline")
         /\ kv' = [call |-> "getProtoMsg", answer |-> a,
                   warned |-> cost > slowRequestTime,
                   value |-> NoValue, msg |-> getProtoMsg(a)]
    /\ UNCHANGED <<rpcVars, txnVars, waitVars, logVars, codecVars>>

NextKV == GetValue \/ GetProtoMsg

\* -------------------------------------------------- etcd accessors: properties

\* The bytes are a well-formed message: whole fields, none with the tag 0.
Decodes(b) ==
    /\ Len(b) % 2 = 0
    /\ \A i \in 1..Len(b) : i % 2 = 1 => b[i] # 0

\* C8: getValue returns (nil, nil) for a response with no entry, a nil value
\* and an error for two or more entries, the value of the entry unchanged
\* and no error for one entry, and a nil value and the error of the get when
\* the get failed.
C8_GetValueByCount ==
    kv.call = "getValue" =>
        LET a == kv.answer  r == kv.value IN
        /\ a.err # NoErr =>
              (r.value = NilBytes /\ r.err # NoErr /\ Cause(r.err) = a.err)
        /\ (a.err = NoErr /\ Len(a.Kvs) = 0) => (r.value = NilBytes /\ r.err = NoErr)
        /\ (a.err = NoErr /\ Len(a.Kvs) >= 2) => (r.value = NilBytes /\ r.err # NoErr)
        /\ (a.err = NoErr /\ Len(a.Kvs) = 1) => (r.value = a.Kvs[1] /\ r.err = NoErr)

C8_Witness ==
    /\ kv.call = "getValue"
    /\ Len(kv.answer.Kvs) = 2
    /\ kv.answer.Kvs[1] # kv.answer.Kvs[2]
    /\ kv.value.err # NoErr

\* C9: getProtoMsg returns (false, nil) for a missing key, (false, error)
\* when the get fails, when more than one entry matches and when the bytes
\* found do not decode, and (true, nil) only for one entry that decoded.
C9_AbsentIsNotAnError ==
    kv.call = "getProtoMsg" =>
        LET a == kv.answer  r == kv.msg IN
        /\ (a.err = NoErr /\ Len(a.Kvs) = 0) => (~r.found /\ r.err = NoErr)
        /\ a.err # NoErr => (~r.found /\ r.err # NoErr)
        /\ (a.err = NoErr /\ Len(a.Kvs) >= 2) => (~r.found /\ r.err # NoErr)
        /\ (a.err = NoErr /\ Len(a.Kvs) = 1 /\ ~a.Kvs[1].nil
                /\ ~Decodes(a.Kvs[1].bytes)) => (~r.found /\ r.err # NoErr)
        /\ r.found => /\ r.err = NoErr
                      /\ a.err = NoErr
                      /\ Len(a.Kvs) = 1
                      /\ Decodes(a.Kvs[1].bytes)
                      /\ Len(r.msg) * 2 = Len(a.Kvs[1].bytes)

C9_Witness ==
    /\ kv.call = "getProtoMsg"
    /\ Len(kv.answer.Kvs) = 1
    /\ ~kv.answer.Kvs[1].nil
    /\ ~Decodes(kv.answer.Kvs[1].bytes)
    /\ ~kv.msg.found /\ kv.msg.err # NoErr

\* ------------------------------------------------------ readiness prober

maxCheckEtcdRunningCount == 100
checkEtcdRunningDelay == 100

\* The attempt from which the status query succeeds; the last value stands
\* for an etcd that does not come up within the attempts.
UpAts == 1..(maxCheckEtcdRunningCount + 1)

\* A loop that runs once more than the count.
LoopCond_inclusive(i) == i <= maxCheckEtcdRunningCount

\* The condition of the for loop of waitEtcdStart.
LoopCond(i) == i < maxCheckEtcdRunningCount

\* A loop body that sleeps before it looks at the error.
AfterStatus_sleepFirst(w, err) ==
    IF err = NoErr
    THEN [w EXCEPT !.pc = "done", !.err = err, !.ret = NoErr,
                   !.sleeps = @ + 1, !.slept = @ + checkEtcdRunningDelay]
    ELSE [w EXCEPT !.pc = "sleep", !.err = err]

\* The loop body of waitEtcdStart after endpointStatus returned err:
\* return nil, or go to sleep.
AfterStatus(w, err) ==
    IF err = NoErr
    THEN [w EXCEPT !.pc = "done", !.err = err, !.ret = NoErr]
    ELSE [w EXCEPT !.pc = "sleep", !.err = err]

InitWait ==
    wait = [pc |-> "idle", upAt |-> 0, i |-> 0, err |-> NoErr, ret |-> NoErr,
            queries |-> 0, sleeps |-> 0, slept |-> 0, lastQueryOK |-> FALSE]

\* waitEtcdStart(c, endpoint) is entered: var err error; i := 0.
waitEtcdStart ==
    /\ wait.pc = "idle"
    /\ \E m \in UpAts : wait' = [wait EXCEPT !.pc = "loop", !.upAt = m]
    /\ UNCHANGED <<rpcVars, txnVars, kvVars, logVars, codecVars>>

\* i < maxCheckEtcdRunningCount: endpointStatus is called and its error
\* looked at.  The error carries the number of the attempt it comes from.
EndpointStatus ==
    /\ wait.pc = "loop"
    /\ LoopCond(wait.i)
    /\ LET n == wait.queries + 1
           err == IF n >= wait.upAt THEN NoErr
                  ELSE Trace(<<"unavailable", n>>)
           w == [wait EXCEPT !.queries = n, !.lastQueryOK = (err = NoErr)]
       IN  wait' = AfterStatus(w, err)
    /\ UNCHANGED <<rpcVars, txnVars, kvVars, logVars, codecVars>>

\* time.Sleep(checkEtcdRunningDelay); continue, with i++.
Sleep ==
    /\ wait.pc = "sleep"
    /\ wait' = [wait EXCEPT !.pc = "loop", !.i = @ + 1, !.sleeps = @ + 1,
                            !.slept = @ + checkEtcdRunningDelay]
    /\ UNCHANGED <<rpcVars, txnVars, kvVars, logVars, codecVars>>

\* The loop ends without a success: return errors.Trace(err).
GiveUp ==
    /\ wait.pc = "loop"
    /\ ~LoopCond(wait.i)
    /\ wait' = [wait EXCEPT !.pc = "done", !.ret = Trace(wait.err)]
    /\ UNCHANGED <<rpcVars, txnVars, kvVars, logVars, codecVars>>

NextWait == waitEtcdStart \/ EndpointStatus \/ Sleep \/ GiveUp

\* -------------------------------------------------- readiness prober: properties

\* C10: when the status query fails on the attempts 1..M-1 and succeeds on
\* attempt M <= 100, waitEtcdStart returns nil after exactly M queries and
\* M-1 sleeps of the fixed delay, and no query follows the successful one.
C10_ReturnsAtFirstSuccess ==
    /\ (wait.pc = "done" /\ wait.upAt <= maxCheckEtcdRunningCount) =>
          /\ wait.ret = NoErr
          /\ wait.queries = wait.upAt
          /\ wait.sleeps = wait.upAt - 1
          /\ wait.slept = (wait.upAt - 1) * checkEtcdRunningDelay
    /\ wait.pc # "idle" => wait.queries <= wait.upAt
    /\ wait.lastQueryOK => wait.pc = "done"

C10_Witness ==
    /\ wait.pc = "done"
    /\ wait.upAt = 3
    /\ wait.ret = NoErr
    /\ wait.queries = 3
    /\ wait.sleeps = 2

\* C11: when the status query never succeeds, waitEtcdStart ends after
\* exactly 100 queries with a non-nil error whose cause is the error of the
\* 100th attempt; it returns nil only after a query that succeeded, and it
\* never makes more queries than the cap.
C11_GivesUpAtTheCap ==
    /\ wait.queries <= maxCheckEtcdRunningCount
    /\ wait.i <= maxCheckEtcdRunningCount
    /\ (wait.pc = "done" /\ wait.upAt > maxCheckEtcdRunningCount) =>
          /\ wait.queries = maxCheckEtcdRunningCount
          /\ wait.ret # NoErr
          /\ wait.ret = Trace(wait.err)
          /\ Cause(wait.ret) = <<maxCheckEtcdRunningCount>>
    /\ (wait.pc = "done" /\ wait.ret = NoErr) =>
          (wait.lastQueryOK /\ wait.queries = wait.upAt)

C11_Witness ==
    /\ wait.pc = "done"
    /\ wait.upAt > maxCheckEtcdRunningCount
    /\ wait.queries = maxCheckEtcdRunningCount
    /\ wait.ret # NoErr

\* ------------------------------------------------------------- log bridge

\* The levels of capnslog.LogLevel that Format has a case for.
LogLevels == {"CRITICAL", "ERROR", "WARNING", "NOTICE", "INFO", "DEBUG", "TRACE"}

Pkgs == {"", "etcdserver"}

\* capnslog's LogLevel.Char().
Char(level) ==
    CASE level = "CRITICAL" -> "C"
      [] level = "ERROR" -> "E"
      [] level = "WARNING" -> "W"
      [] level = "NOTICE" -> "N"
      [] level = "INFO" -> "I"
      [] level = "DEBUG" -> "D"
      [] level = "TRACE" -> "T"

\* fmt.Sprint(level.Char(), " | ", pkg, entries), with pkg followed by ": "
\* when it is not empty; the pieces are kept apart.
logStr(pkg, level, entries) ==
    <<Char(level), " | ">> \o (IF pkg # "" THEN <<pkg, ": ">> ELSE <<"">>)
        \o <<entries>>

\* A bridge that sends notices to the warning level of the sink.
SinkCall_noticeWarn(level) ==
    CASE level = "CRITICAL" -> "Fatalf"
      [] level = "ERROR" -> "Errorf"
      [] level \in {"WARNING", "NOTICE"} -> "Warningf"
      [] level = "INFO" -> "Infof"
      [] level \in {"DEBUG", "TRACE"} -> "Debugf"
      [] OTHER -> "none"

\* The switch of Format: the function of the sink that is called, "none"
\* when no case matches.
SinkCall(level) ==
    CASE level = "CRITICAL" -> "Fatalf"
      [] level = "ERROR" -> "Errorf"
      [] level = "WARNING" -> "Warningf"
      [] level = "NOTICE" -> "Infof"
      [] level = "INFO" -> "Infof"
      [] level = "DEBUG" -> "Debugf"
      [] level = "TRACE" -> "Debugf"
      [] OTHER -> "none"

InitLog == logb = [in |-> <<>>, sink |-> <<>>, alive |-> TRUE]

\* redirectFormatter.Format(pkg, level, depth, entries...): log.Fatalf
\* writes the entry and ends the process.
Format ==
    /\ logb.alive
    /\ Len(logb.in) < MaxLogs
    /\ \E pkg \in Pkgs, level \in LogLevels :
         LET fn == SinkCall(level)
             entries == Len(logb.in) + 1 IN
         logb' = [in |-> Append(logb.in, [pkg |-> pkg, level |-> level,
                                         entries |-> entries]),
                  sink |-> IF fn = "none" THEN logb.sink
                           ELSE Append(logb.sink,
                                    [fn |-> fn,
                                     str |-> logStr(pkg, level, entries)]),
                  alive |-> fn # "Fatalf"]
    /\ UNCHANGED <<rpcVars, txnVars, kvVars, waitVars, codecVars>>

NextLog == Format

\* ------------------------------------------------- log bridge: properties

\* C15: every entry given to Format makes one call of the sink, in order and
\* with the entry's text: Fatalf for critical, Errorf for error, Warningf
\* for warning, Infof for notice and info, Debugf for debug and trace; the
\* process has ended exactly when a critical entry was given, and that
\* entry is the last.
C15_LevelsMapToSink ==
    /\ Len(logb.sink) = Len(logb.in)
    /\ \A i \in 1..Len(logb.in) :
          LET e == logb.in[i]  c == logb.sink[i] IN
          /\ e.level = "CRITICAL" <=> c.fn = "Fatalf"
          /\ e.level = "ERROR" <=> c.fn = "Errorf"
          /\ e.level = "WARNING" <=> c.fn = "Warningf"
          /\ e.level \in {"NOTICE", "INFO"} <=> c.fn = "Infof"
          /\ e.level \in {"DEBUG", "TRACE"} <=> c.fn = "Debugf"
          /\ c.str[1] = Char(e.level)
          /\ c.str[Len(c.str)] = e.entries
          /\ e.level = "CRITICAL" => i = Len(logb.in)
    /\ logb.alive <=> \A i \in 1..Len(logb.in) : logb.in[i].level # "CRITICAL"

C15_Witness ==
    /\ Len(logb.in) = 2
    /\ logb.in[1].level \in {"NOTICE", "TRACE"}
    /\ logb.in[2].level = "CRITICAL"
    /\ ~logb.alive
    /\ logb.sink[2].fn = "Fatalf"

\* ------------------------------------------------------------ uint64 codec

\* A uint64 is kept as four 16-bit limbs, the most significant first, so
\* that all 64 bits are there: <<v >> 48, (v >> 32) & 0xffff,
\* (v >> 16) & 0xffff, v & 0xffff>>.
LimbVals == {0, 1, 255, 256, 65535}
Uint64s == {<<a, b, c, d>> : a, b, c, d \in LimbVals}
Zero == <<0, 0, 0, 0>>

\* The byte slices handed to bytesToUint64 from outside.
RawBytes == SeqsUpTo({0, 255}, MaxBytesLen)

\* A PutUint64 that stores the least significant byte first.
uint64ToBytes_little(v) ==
    [i \in 1..8 |-> IF i % 2 = 1 THEN v[4 - (i \div 2)] % 256
                                 ELSE v[5 - (i \div 2)] \div 256]

\* uint64ToBytes(v): make([]byte, 8) and binary.BigEndian.PutUint64:
\* b[0] = byte(v >> 56), ..., b[7] = byte(v).
uint64ToBytes(v) ==
    [i \in 1..8 |-> IF i % 2 = 1 THEN v[(i + 1) \div 2] \div 256
                                 ELSE v[i \div 2] % 256]

\* bytesToUint64(b): an error and 0 unless len(b) = 8, else
\* binary.BigEndian.Uint64(b) = b[7] | b[6] << 8 | ... | b[0] << 56.
bytesToUint64(b) ==
    IF Len(b) # 8
    THEN [n |-> Zero, err |-> Err("invalid data")]
    ELSE [n |-> [k \in 1..4 |-> b[2 * k - 1] * 256 + b[2 * k]], err |-> NoErr]

InitCodec ==
    codec = [op |-> "none", v |-> Zero, b |-> <<>>, n |-> Zero, err |-> NoErr]

\* A call uint64ToBytes(v).
Uint64ToBytes ==
    /\ codec.op = "none"
    /\ \E v \in Uint64s :
         codec' = [codec EXCEPT !.op = "encoded", !.v = v, !.b = uint64ToBytes(v)]
    /\ UNCHANGED <<rpcVars, txnVars, kvVars, waitVars, logVars>>

\* A call bytesToUint64(b) on what uint64ToBytes returned.
BytesToUint64 ==
    /\ codec.op = "encoded"
    /\ LET r == bytesToUint64(codec.b) IN
         codec' = [codec EXCEPT !.op = "roundtrip", !.n = r.n, !.err = r.err]
    /\ UNCHANGED <<rpcVars, txnVars, kvVars, waitVars, logVars>>

\* A call bytesToUint64(b) on bytes read from elsewhere.
BytesToUint64Raw ==
    /\ codec.op = "none"
    /\ \E b \in RawBytes :
         LET r == bytesToUint64(b) IN
         codec' = [codec EXCEPT !.op = "decoded", !.b = b, !.n = r.n,
                                !.err = r.err]
    /\ UNCHANGED <<rpcVars, txnVars, kvVars, waitVars, logVars>>

NextCodec ==
    \/ Uint64ToBytes
    \/ BytesToUint64
    \/ BytesToUint64Raw

\* ------------------------------------------------ uint64 codec: properties

\* Byte i (1 the first) of the big-endian form of v.
BigEndianByte(v, i) ==
    IF i % 2 = 1 THEN v[(i + 1) \div 2] \div 256 ELSE v[i \div 2] % 256

\* C19: uint64ToBytes(v) is 8 bytes, the most significant first, and
\* bytesToUint64 of it is v with no error; bytesToUint64 of a slice whose
\* length is not 8 is 0 and an error, and of any slice of 8 bytes no error.
C19_BigEndianRoundTrip ==
    /\ codec.op \in {"encoded", "roundtrip"} =>
          /\ Len(codec.b) = 8
          /\ \A i \in 1..8 : codec.b[i] \in 0..255
          /\ \A k \in 1..4 : codec.b[2 * k - 1] * 256 + codec.b[2 * k] = codec.v[k]
    /\ codec.op = "roundtrip" => (codec.n = codec.v /\ codec.err = NoErr)
    /\ codec.op = "decoded" =>
          IF Len(codec.b) # 8
          THEN codec.n = Zero /\ codec.err # NoErr
          ELSE /\ codec.err = NoErr
               /\ \A i \in 1..8 : BigEndianByte(codec.n, i) = codec.b[i]

C19_Witness ==
    /\ codec.op = "roundtrip"
    /\ codec.v = <<65535, 256, 255, 1>>
    /\ codec.b = <<255, 255, 1, 0, 0, 255, 0, 1>>
    /\ codec.n = codec.v

\* ---------------------------------------------------------- specifications

Init == InitRPC /\ InitTxn /\ InitKV /\ InitWait /\ InitLog /\ InitCodec

SpecRPC == Init /\ [][NextRPC]_vars

\* The steps of a call that are the caller's own are taken when they can be:
\* parsing, dialling (the operating system bounds connect), the writes of a
\* short request into the socket buffer and the return of an error.  The
\* read of the response is the peer's move: rpcConnect and rpcCall set no
\* deadline on the connection, so util.ReadMessage returns only when the
\* peer sends a frame or the connection breaks, and nothing forces either.
SpecRPCLive ==
    /\ Init
    /\ [][NextRPC]_vars
    /\ \A c \in Calls :
          /\ WF_vars(RPCRequest(c))
          /\ WF_vars(Dial(c))
          /\ WF_vars(Preflight(c))
          /\ WF_vars(ConnectFailed(c))
          /\ WF_vars(WriteMessage(c))

SpecTxn == Init /\ [][NextTxn]_vars
SpecKV == Init /\ [][NextKV]_vars
SpecWait == Init /\ [][NextWait]_vars
SpecLog == Init /\ [][NextLog]_vars
SpecCodec == Init /\ [][NextCodec]_vars

====
